---- MODULE Spec2Model ----
(***************************************************************************)
(* A model of xmi2json.py and xmi2conll.py: the extraction of tokens and   *)
(* custom annotations from an XMI document, the span/relationship mapping, *)
(* the BIO tagger, and the two entry points that write the output files.   *)
(*                                                                         *)
(* Strings the code slices, searches or parses (document text, attribute   *)
(* values, token text) are sequences of one-character strings.  Tag names, *)
(* attribute names and dictionary keys are atoms.  An XMI document is a    *)
(* sequence of elements, one per line of the file; a Python dict is the    *)
(* sequence of its values in insertion order.                              *)
(***************************************************************************)
EXTENDS Integers, Sequences, FiniteSets, TLC

VARIABLES inputExists, file, entry, pc, xmi_content, tokens, token_lookup,
          ners, relations, relationships, conll_data, out, completed

vars == <<inputExists, file, entry, pc, xmi_content, tokens, token_lookup,
          ners, relations, relationships, conll_data, out, completed>>

----------------------------------------------------------------------------
(* Bounds of the input families *)

MaxTextLen == 4
MaxPairTextLen == 3
MaxTokens == 2
MaxLines == 2

----------------------------------------------------------------------------
(* Characters and Python string primitives *)

Whitespace == {" ", "\t", "\n"}

DigitChars == <<"0", "1", "2", "3", "4", "5", "6", "7", "8", "9">>

Digits == {DigitChars[i] : i \in 1..10}

UNKNOWN == <<"U", "N", "K", "N", "O", "W", "N">>

Min(a, b) == IF a <= b THEN a ELSE b

Max(a, b) == IF a >= b THEN a ELSE b

\* the regex class \d+ : a non-empty run of decimal digits
IsDigits(s) == Len(s) > 0 /\ \A i \in 1..Len(s) : s[i] \in Digits

DigitVal(c) == (CHOOSE i \in 1..10 : DigitChars[i] = c) - 1

RECURSIVE ParseInt(_)
\* int(s) for a string of decimal digits
ParseInt(s) ==
    IF Len(s) = 0 THEN 0
    ELSE 10 * ParseInt(SubSeq(s, 1, Len(s) - 1)) + DigitVal(s[Len(s)])

\* s[b:e] for non-negative b and e, clamped to the length as Python does
PySlice(s, b, e) ==
    LET lo == Min(b, Len(s))
        hi == Min(e, Len(s))
    IN  IF lo >= hi THEN <<>> ELSE SubSeq(s, lo + 1, hi)

RECURSIVE LStrip(_)
LStrip(s) == IF Len(s) > 0 /\ s[1] \in Whitespace THEN LStrip(Tail(s)) ELSE s

RECURSIVE RStrip(_)
RStrip(s) ==
    IF Len(s) > 0 /\ s[Len(s)] \in Whitespace
    THEN RStrip(SubSeq(s, 1, Len(s) - 1)) ELSE s

\* str.strip()
Strip(s) == RStrip(LStrip(s))

RECURSIVE CollapseWs(_)
\* re.sub(r'\s+', ' ', s)
CollapseWs(s) ==
    IF Len(s) = 0 THEN <<>>
    ELSE IF s[1] \in Whitespace
         THEN <<" ">> \o CollapseWs(LStrip(s))
         ELSE <<s[1]>> \o CollapseWs(Tail(s))

RECURSIVE SplitFrom(_, _, _)
\* the scan of str.split(): cur is the run of non-whitespace read so far
SplitFrom(s, i, cur) ==
    IF i > Len(s) THEN (IF Len(cur) > 0 THEN <<cur>> ELSE <<>>)
    ELSE IF s[i] \in Whitespace
         THEN (IF Len(cur) > 0 THEN <<cur>> ELSE <<>>) \o SplitFrom(s, i + 1, <<>>)
         ELSE SplitFrom(s, i + 1, Append(cur, s[i]))

\* str.split() with no argument: the maximal runs of non-whitespace
Split(s) == SplitFrom(s, 1, <<>>)

MatchAt(text, sub, i) ==
    /\ i + Len(sub) <= Len(text)
    /\ \A k \in 1..Len(sub) : text[i + k] = sub[k]

\* a find that ignores the cursor: the first occurrence anywhere in the text
FindGlobal(text, sub, start) ==
    LET hits == {i \in 0..Len(text) : MatchAt(text, sub, i)}
    IN  IF hits = {} THEN -1 ELSE CHOOSE i \in hits : \A j \in hits : i <= j

\* text.find(sub, start): zero-based index of the first occurrence at or
\* after start, -1 when there is none
Find(text, sub, start) ==
    LET hits == {i \in start..Len(text) : MatchAt(text, sub, i)}
    IN  IF hits = {} THEN -1 ELSE CHOOSE i \in hits : \A j \in hits : i <= j

RECURSIVE JoinSpace(_)
\* " ".join(parts)
JoinSpace(parts) ==
    IF Len(parts) = 0 THEN <<>>
    ELSE IF Len(parts) = 1 THEN parts[1]
    ELSE parts[1] \o <<" ">> \o JoinSpace(Tail(parts))

----------------------------------------------------------------------------
(* XMI documents: elements with a qualified tag and qualified attributes *)

Attr(p, n, v) == [prefix |-> p, name |-> n, value |-> v]

Elem(p, n, as) == [prefix |-> p, name |-> n, attrs |-> as]

\* the element prefixes bound to the cas and the segmentation namespaces
CasPrefix == "cas"

SegPrefix == "type4"

IsSofa(e) == e.prefix = CasPrefix /\ e.name = "Sofa"

IsToken(e) == e.prefix = SegPrefix /\ e.name = "Token"

\* Element.get(name) for an attribute without namespace: <<value>>, or <<>>
\* for None
ElemGet(e, n) ==
    LET idx == {i \in 1..Len(e.attrs) : e.attrs[i].prefix = "" /\ e.attrs[i].name = n}
    IN  IF idx = {} THEN <<>>
        ELSE <<e.attrs[CHOOSE i \in idx : \A j \in idx : i <= j].value>>

\* root.find(".//Sofa"): <<element>> for the first Sofa, <<>> for None
FindSofa(content) ==
    LET idx == {i \in 1..Len(content.elems) : IsSofa(content.elems[i])}
    IN  IF idx = {} THEN <<>>
        ELSE <<content.elems[CHOOSE i \in idx : \A j \in idx : i <= j]>>

\* sofa_element.get("sofaString") if sofa_element is not None else "":
\* <<text>>, or <<>> when the element is there without the attribute (None)
SofaString(content) ==
    LET sofa == FindSofa(content)
    IN  IF sofa = <<>> THEN << <<>> >> ELSE ElemGet(sofa[1], "sofaString")

----------------------------------------------------------------------------
(* xmi2json.extract_tokens_from_xmi *)

TokenElems(content) == SelectSeq(content.elems, IsToken)

\* int(v) succeeds: v is not None and is a run of decimal digits (the only
\* strings of the input alphabet that int() accepts)
IntOk(v) == v # <<>> /\ IsDigits(v[1])

\* ET.fromstring raises on malformed XML; int() raises on a begin or end that
\* is missing or not an integer; slicing raises when sofa_text is None
ExtractTokensRaises(content) ==
    \/ ~content.wellFormed
    \/ \E i \in 1..Len(TokenElems(content)) :
          LET t == TokenElems(content)[i]
          IN  \/ ~IntOk(ElemGet(t, "begin"))
              \/ ~IntOk(ElemGet(t, "end"))
              \/ SofaString(content) = <<>>

\* the token record of one Token element; token.get("xmi:id") finds nothing
\* under that name (ElementTree keeps the attribute under its namespace), so
\* xmi_id is None
TokenOf(sofa_text, t) ==
    LET begin == ParseInt(ElemGet(t, "begin")[1])
        end == ParseInt(ElemGet(t, "end")[1])
    IN  [xmi_id |-> <<>>, begin |-> begin, end |-> end,
         token |-> CollapseWs(Strip(PySlice(sofa_text, begin, end)))]

RECURSIVE TokensFrom(_, _)
TokensFrom(sofa_text, elems) ==
    IF Len(elems) = 0 THEN <<>>
    ELSE LET tok == TokenOf(sofa_text, elems[1])
         IN  (IF Len(tok.token) = 0 THEN <<>> ELSE <<tok>>)
             \o TokensFrom(sofa_text, Tail(elems))

\* the tokens list, when nothing raises
ExtractTokens(content) ==
    IF TokenElems(content) = <<>> THEN <<>>
    ELSE TokensFrom(SofaString(content)[1], TokenElems(content))

\* token_lookup: (begin, end) -> token text, a later token replacing an
\* earlier one with the same offsets
TokenLookup(toks) ==
    [p \in {<<toks[i].begin, toks[i].end>> : i \in 1..Len(toks)} |->
        LET idx == {i \in 1..Len(toks) : <<toks[i].begin, toks[i].end>> = p}
        IN  toks[CHOOSE i \in idx : \A j \in idx : i >= j].token]

----------------------------------------------------------------------------
(* xmi2json.extract_custom_annos *)

\* label_pattern <custom\d?:(\w+) : the tag's prefix is custom or custom
\* followed by one digit
CustomPrefixes ==
    {"custom", "custom0", "custom1", "custom2", "custom3", "custom4",
     "custom5", "custom6", "custom7", "custom8", "custom9"}

LabelMatch(e) == e.prefix \in CustomPrefixes

FirstIdx(S) == CHOOSE i \in S : \A j \in S : i <= j

\* xmi_id_pattern xmi:id="(\d+)" : the attributes the probe can match
XmiIdHits(e) ==
    {i \in 1..Len(e.attrs) :
        /\ e.attrs[i].prefix = "xmi" /\ e.attrs[i].name = "id"
        /\ IsDigits(e.attrs[i].value)}

\* begin_pattern / end_pattern n="(\d+)" : the text n=" may end any
\* qualified attribute name
OffsetHits(e, n) ==
    {i \in 1..Len(e.attrs) : e.attrs[i].name = n /\ IsDigits(e.attrs[i].value)}

\* all four probes succeed on the line
Accepted(e) ==
    /\ LabelMatch(e)
    /\ XmiIdHits(e) # {}
    /\ OffsetHits(e, "begin") # {}
    /\ OffsetHits(e, "end") # {}

\* the names the attribute loop leaves out
ReservedNames == {"xmi:id", "begin", "end", "sofa"}

\* attribute_pattern (\w+)="([^"]+)" : \w+ cannot cross the colon of a
\* qualified name, so the name captured is the local part; an empty value
\* does not match
AttrMatches(e) ==
    LET keep(a) == Len(a.value) > 0
        pair(a) == <<a.name, a.value>>
        F[i \in 0..Len(e.attrs)] ==
            IF i = 0 THEN <<>>
            ELSE IF keep(e.attrs[i]) THEN Append(F[i - 1], pair(e.attrs[i]))
                 ELSE F[i - 1]
    IN  F[Len(e.attrs)]

RECURSIVE AddAttrs(_, _)
\* for attr_name, attr_value in attributes: ... anno_data[attr_name] = attr_value
AddAttrs(anno_data, matches) ==
    IF Len(matches) = 0 THEN anno_data
    ELSE LET m == matches[1]
         IN  AddAttrs(IF m[1] \notin ReservedNames
                      THEN (m[1] :> m[2]) @@ anno_data
                      ELSE anno_data,
                      Tail(matches))

\* the record built from an accepted line
AnnoData(e) ==
    AddAttrs([xmi_id |-> e.attrs[FirstIdx(XmiIdHits(e))].value,
              begin |-> ParseInt(e.attrs[FirstIdx(OffsetHits(e, "begin"))].value),
              end |-> ParseInt(e.attrs[FirstIdx(OffsetHits(e, "end"))].value),
              label |-> e.name],
             AttrMatches(e))

\* d[rec["xmi_id"]] = rec on a dict kept as the sequence of its values
DictPut(d, rec) ==
    LET idx == {i \in 1..Len(d) : d[i].xmi_id = rec.xmi_id}
    IN  IF idx = {} THEN Append(d, rec)
        ELSE [d EXCEPT ![FirstIdx(idx)] = rec]

RECURSIVE AnnosFrom(_, _)
AnnosFrom(annos, elems) ==
    IF Len(elems) = 0 THEN annos
    ELSE AnnosFrom(IF Accepted(elems[1]) THEN DictPut(annos, AnnoData(elems[1]))
                   ELSE annos,
                   Tail(elems))

\* annos after the loop over the lines
Annos(content) == AnnosFrom(<<>>, content.elems)

HasKey(rec, k) == k \in DOMAIN rec

\* "Dependent" not in v and "Governor" not in v
IsNer(v) == ~HasKey(v, "Dependent") /\ ~HasKey(v, "Governor")

\* "Dependent" in v and "Governor" in v
IsRelation(v) == HasKey(v, "Dependent") /\ HasKey(v, "Governor")

Ners(content) == SelectSeq(Annos(content), IsNer)

Relations(content) == SelectSeq(Annos(content), IsRelation)

----------------------------------------------------------------------------
(* xmi2json.map_tokens_to_spans and xmi2json.map_relationships *)

\* span["begin"] <= token["begin"] <= span["end"]
StartsInSpan(span, tok) == span.begin <= tok.begin /\ tok.begin <= span.end

SpanTokens(toks, span) ==
    LET F[i \in 0..Len(toks)] ==
            IF i = 0 THEN <<>>
            ELSE IF StartsInSpan(span, toks[i]) THEN Append(F[i - 1], toks[i].token)
                 ELSE F[i - 1]
    IN  F[Len(toks)]

\* span["token"] = " ".join(span_tokens) if span_tokens else "UNKNOWN"
MapSpan(toks, span) ==
    LET st == SpanTokens(toks, span)
    IN  ("token" :> (IF Len(st) > 0 THEN JoinSpace(st) ELSE UNKNOWN)) @@ span

MapTokensToSpans(toks, spans) == [i \in 1..Len(spans) |-> MapSpan(toks, spans[i])]

\* ners.get(key, {}).get("token", "UNKNOWN")
TokenOfSpan(spans, key) ==
    LET idx == {i \in 1..Len(spans) : spans[i].xmi_id = key}
    IN  IF idx = {} THEN UNKNOWN
        ELSE IF HasKey(spans[FirstIdx(idx)], "token") THEN spans[FirstIdx(idx)].token
        ELSE UNKNOWN

\* a resolution that gives up on both endpoints when either is missing
RelationshipOfBoth(spans, rel) ==
    LET known(k) == \E i \in 1..Len(spans) : spans[i].xmi_id = k
        both == known(rel.Dependent) /\ known(rel.Governor)
    IN  [xmi_id |-> rel.xmi_id, label |-> rel.label,
         rel_dep |-> IF both THEN TokenOfSpan(spans, rel.Dependent) ELSE UNKNOWN,
         rel_gov |-> IF both THEN TokenOfSpan(spans, rel.Governor) ELSE UNKNOWN]

RelationshipOf(spans, rel) ==
    [xmi_id |-> rel.xmi_id, label |-> rel.label,
     rel_dep |-> TokenOfSpan(spans, rel.Dependent),
     rel_gov |-> TokenOfSpan(spans, rel.Governor)]

MapRelationships(rels, spans) == [i \in 1..Len(rels) |-> RelationshipOf(spans, rels[i])]

----------------------------------------------------------------------------
(* xmi2conll.convert_to_conll *)

\* text is None: text.split() raises
ConvertRaises(content) == SofaString(content) = <<>>

RECURSIVE TokenData(_, _, _)
\* the forward scan: each token is searched from the end of the one before
TokenData(text, toks, current_index) ==
    IF Len(toks) = 0 THEN <<>>
    ELSE LET start_index == Find(text, toks[1], current_index)
             end_index == start_index + Len(toks[1])
         IN  <<[token |-> toks[1], start |-> start_index, end |-> end_index]>>
             \o TokenData(text, Tail(toks), end_index)

\* a containment test on the token's start alone
ContainedByStart(span, t) == t.start >= span.begin /\ t.start <= span.end

\* start_idx >= begin and end_idx <= end
Contained(span, t) == t.start >= span.begin /\ t.end <= span.end

BTag(label) == <<"B", label>>

ITag(label) == <<"I", label>>

OTag == <<"O">>

RECURSIVE LabelSpan(_, _, _, _)
\* one span's pass over token_data: B- for the first contained token, I-
\* for the later ones
LabelSpan(token_labels, span, token_data, inside_entity) ==
    IF Len(token_data) = 0 THEN token_labels
    ELSE LET t == token_data[1]
         IN  IF Contained(span, t)
             THEN LabelSpan([token_labels EXCEPT ![t.start] =
                                IF inside_entity THEN ITag(span.label)
                                ELSE BTag(span.label)],
                            span, Tail(token_data), TRUE)
             ELSE LabelSpan(token_labels, span, Tail(token_data), inside_entity)

RECURSIVE LabelSpans(_, _, _)
\* the spans in the dict's order, all writing the one token_labels map
LabelSpans(token_labels, spans, token_data) ==
    IF Len(spans) = 0 THEN token_labels
    ELSE LabelSpans(LabelSpan(token_labels, spans[1], token_data, FALSE),
                    Tail(spans), token_data)

\* the lines of the CoNLL output, before they are formatted and joined
ConvertToConll(content, ners_spans) ==
    LET text == SofaString(content)[1]
        token_data == TokenData(text, Split(text), 0)
        default == [s \in {token_data[i].start : i \in 1..Len(token_data)} |-> OTag]
        token_labels == LabelSpans(default, ners_spans, token_data)
    IN  [i \in 1..Len(token_data) |->
            [token |-> token_data[i].token, start |-> token_data[i].start,
             end |-> token_data[i].end, label |-> token_labels[token_data[i].start]]]

----------------------------------------------------------------------------
(* The input files *)

RECURSIVE Dec(_)
\* the decimal digits of n, to write offsets and identifiers into a document
Dec(n) == IF n < 10 THEN <<DigitChars[n + 1]>>
          ELSE Dec(n \div 10) \o <<DigitChars[(n % 10) + 1]>>

\* the subsequences of pool with at most k elements
SubSeqs(pool, k) ==
    {SelectSeq([i \in 1..Len(pool) |-> <<i, pool[i]>>], LAMBDA x : x[1] \in S) :
        S \in {T \in SUBSET (1..Len(pool)) : Cardinality(T) <= k}}

Second(pairs) == [i \in 1..Len(pairs) |-> pairs[i][2]]

SofaElem(as) == Elem(CasPrefix, "Sofa", <<Attr("xmi", "id", <<"1">>)>> \o as)

SofaWith(text) == SofaElem(<<Attr("", "sofaString", text)>>)

TokenElem(id, b, e) ==
    Elem(SegPrefix, "Token",
         <<Attr("xmi", "id", Dec(id)), Attr("", "sofa", <<"1">>),
           Attr("", "begin", b), Attr("", "end", e)>>)

CustomElem(p, label, id, as) ==
    Elem(p, label, <<Attr("xmi", "id", Dec(id)), Attr("", "sofa", <<"1">>)>> \o as)

Offsets(b, e) == <<Attr("", "begin", b), Attr("", "end", e)>>

Doc(elems) == [wellFormed |-> TRUE, elems |-> elems]

EmptyDoc == Doc(<<>>)

TextA == <<"a", "b", " ", "c", "d">>

\* no Sofa element, a Sofa element without sofaString, a Sofa with text
SofaOptions == {<<>>, <<SofaElem(<<>>)>>, <<SofaWith(TextA)>>}

\* Token elements in document order: "ab", " " (dropped), " cd", "cd", and
\* one whose begin is not an integer
TokenPool ==
    <<TokenElem(11, Dec(0), Dec(2)), TokenElem(12, Dec(2), Dec(3)),
      TokenElem(13, Dec(2), Dec(5)), TokenElem(14, Dec(3), Dec(5)),
      TokenElem(15, <<"x">>, Dec(2))>>

\* custom annotation lines: entity spans, relationships, a record with one
\* endpoint only, an offset that is not an integer, a line without end
LinePool ==
    <<CustomElem("custom", "E", 1, Offsets(Dec(0), Dec(2))),
      CustomElem("custom", "E", 2, Offsets(Dec(3), Dec(5)) \o <<Attr("", "Type", <<"x">>)>>),
      CustomElem("custom2", "F", 3, Offsets(Dec(0), Dec(3)) \o <<Attr("", "Note", <<>>)>>),
      CustomElem("custom", "Rel", 7,
                 Offsets(Dec(0), Dec(5))
                 \o <<Attr("", "Dependent", Dec(1)), Attr("", "Governor", Dec(2))>>),
      CustomElem("custom", "Rel", 8,
                 Offsets(Dec(0), Dec(2))
                 \o <<Attr("", "Dependent", Dec(1)), Attr("", "Governor", Dec(9))>>),
      CustomElem("custom", "Half", 5, Offsets(Dec(0), Dec(2)) \o <<Attr("", "Dependent", Dec(1))>>),
      CustomElem("custom", "E", 4, Offsets(<<"x">>, Dec(2))),
      CustomElem("custom", "E", 6, <<Attr("", "begin", Dec(0))>>)>>

\* family A: the whole pipeline on a short document
DocsA ==
    {Doc(sofa \o Second(toks) \o Second(lines)) :
        sofa \in SofaOptions,
        toks \in SubSeqs(TokenPool, MaxTokens),
        lines \in SubSeqs(LinePool, MaxLines)}

\* files that are not well-formed XML
DocsMalformed ==
    {[wellFormed |-> FALSE, elems |-> <<SofaWith(TextA)>> \o Second(lines)] :
        lines \in SubSeqs(LinePool, 1)}

TextAlphabet == {"a", "b", " "}

Texts(n) == UNION {[1..k -> TextAlphabet] : k \in 0..n}

SpanLine(label, id, b, e) == CustomElem("custom", label, id, Offsets(Dec(b), Dec(e)))

\* the spans with 0 <= begin <= end <= n
SpanLines(label, id, n) ==
    {<<SpanLine(label, id, p[1], p[2])>> :
        p \in {q \in (0..n) \X (0..n) : q[1] <= q[2]}}

\* family B: every short text, with no span or one span
DocsB ==
    {Doc(<<SofaWith(text)>> \o spans) :
        text \in Texts(MaxTextLen),
        spans \in {<<>>} \cup SpanLines("A", 1, MaxTextLen)}

\* family B2: every shorter text, with two spans
DocsB2 ==
    {Doc(<<SofaWith(text)>> \o x \o y) :
        text \in Texts(MaxPairTextLen),
        x \in SpanLines("A", 1, MaxPairTextLen),
        y \in SpanLines("B", 2, MaxPairTextLen)}

ParisText ==
    <<"P", "a", "r", "i", "s", " ", "i", "s", " ", "t", "h", "e", " ",
      "c", "a", "p", "i", "t", "a", "l", " ", "o", "f", " ",
      "F", "r", "a", "n", "c", "e", " ", ".">>

\* the worked scenario: spans {0, 5, LOC} and {27, 33, LOC}
ParisDoc ==
    Doc(<<SofaWith(ParisText), SpanLine("LOC", 1, 0, 5), SpanLine("LOC", 2, 27, 33)>>)

InputCases ==
    {[exists |-> FALSE, file |-> EmptyDoc, entry |-> en] : en \in {"json", "conll"}}
    \cup {[exists |-> TRUE, file |-> d, entry |-> en] :
            d \in DocsA \cup DocsMalformed \cup {ParisDoc}, en \in {"json", "conll"}}
    \cup {[exists |-> TRUE, file |-> d, entry |-> "conll"] : d \in DocsB \cup DocsB2}

----------------------------------------------------------------------------
(* The entry points process_xmi_file and process_xmi_to_conll *)

Init ==
    /\ \E c \in InputCases :
          /\ inputExists = c.exists
          /\ file = c.file
          /\ entry = c.entry
    /\ pc = "start"
    /\ xmi_content = EmptyDoc
    /\ tokens = <<>>
    /\ token_lookup = <<>>
    /\ ners = <<>>
    /\ relations = <<>>
    /\ relationships = <<>>
    /\ conll_data = <<>>
    /\ out = <<>>
    /\ completed = {}

\* if not os.path.exists(xmi_path): print(...); return
CheckInput ==
    /\ pc = "start"
    /\ pc' = IF inputExists THEN "read" ELSE "done"
    /\ UNCHANGED <<inputExists, file, entry, xmi_content, tokens, token_lookup,
                   ners, relations, relationships, conll_data, out, completed>>

\* a read that opens the output file for writing before anything is parsed
ReadInputOpeningOutput ==
    /\ pc = "read"
    /\ xmi_content' = file
    /\ out' = ((IF entry = "json" THEN "ner" ELSE "conll") :> <<>>) @@ out
    /\ pc' = "extract_tokens"
    /\ UNCHANGED <<inputExists, file, entry, tokens, token_lookup, ners,
                   relations, relationships, conll_data, completed>>

\* xmi_content = xmi_file.read()
ReadInput ==
    /\ pc = "read"
    /\ xmi_content' = file
    /\ pc' = "extract_tokens"
    /\ UNCHANGED <<inputExists, file, entry, tokens, token_lookup, ners,
                   relations, relationships, conll_data, out, completed>>

\* tokens, token_lookup = extract_tokens_from_xmi(xmi_content)
CallExtractTokens ==
    /\ pc = "extract_tokens"
    /\ IF ExtractTokensRaises(xmi_content)
       THEN /\ pc' = "raised"
            /\ UNCHANGED <<tokens, token_lookup, completed>>
       ELSE /\ tokens' = ExtractTokens(xmi_content)
            /\ token_lookup' = TokenLookup(ExtractTokens(xmi_content))
            /\ completed' = completed \cup {"extract_tokens"}
            /\ pc' = "extract_annos"
    /\ UNCHANGED <<inputExists, file, entry, xmi_content, ners, relations,
                   relationships, conll_data, out>>

\* ners, relations = extract_custom_annos(xmi_content)
CallExtractAnnos ==
    /\ pc = "extract_annos"
    /\ ners' = Ners(xmi_content)
    /\ relations' = Relations(xmi_content)
    /\ completed' = completed \cup {"extract_annos"}
    /\ pc' = "map_spans"
    /\ UNCHANGED <<inputExists, file, entry, xmi_content, tokens, token_lookup,
                   relationships, conll_data, out>>

\* ners_spans = map_tokens_to_spans(tokens, token_lookup, ners): the records
\* of ners are changed in place
CallMapSpans ==
    /\ pc = "map_spans"
    /\ ners' = MapTokensToSpans(tokens, ners)
    /\ completed' = completed \cup {"map_spans"}
    /\ pc' = IF entry = "json" THEN "map_relationships" ELSE "convert"
    /\ UNCHANGED <<inputExists, file, entry, xmi_content, tokens, token_lookup,
                   relations, relationships, conll_data, out>>

\* relationships = map_relationships(relations, ners_spans)
CallMapRelationships ==
    /\ pc = "map_relationships"
    /\ relationships' = MapRelationships(relations, ners)
    /\ completed' = completed \cup {"map_relationships"}
    /\ pc' = "write_ner"
    /\ UNCHANGED <<inputExists, file, entry, xmi_content, tokens, token_lookup,
                   ners, relations, conll_data, out>>

\* conll_data = convert_to_conll(xmi_content, ners_spans)
CallConvert ==
    /\ pc = "convert"
    /\ IF ConvertRaises(xmi_content)
       THEN /\ pc' = "raised"
            /\ UNCHANGED <<conll_data, completed>>
       ELSE /\ conll_data' = ConvertToConll(xmi_content, ners)
            /\ completed' = completed \cup {"convert"}
            /\ pc' = "write_conll"
    /\ UNCHANGED <<inputExists, file, entry, xmi_content, tokens, token_lookup,
                   ners, relations, relationships, out>>

\* json.dump(ners_spans, f) into <name>_ner.json
WriteNer ==
    /\ pc = "write_ner"
    /\ out' = ("ner" :> ners) @@ out
    /\ pc' = "write_rel"
    /\ UNCHANGED <<inputExists, file, entry, xmi_content, tokens, token_lookup,
                   ners, relations, relationships, conll_data, completed>>

\* json.dump(relationships, f) into <name>_rel.json
WriteRel ==
    /\ pc = "write_rel"
    /\ out' = ("rel" :> relationships) @@ out
    /\ pc' = "done"
    /\ UNCHANGED <<inputExists, file, entry, xmi_content, tokens, token_lookup,
                   ners, relations, relationships, conll_data, completed>>

\* os.makedirs(output_dir); f.write(conll_data) into <name>.conll
WriteConll ==
    /\ pc = "write_conll"
    /\ out' = ("conll" :> conll_data) @@ out
    /\ pc' = "done"
    /\ UNCHANGED <<inputExists, file, entry, xmi_content, tokens, token_lookup,
                   ners, relations, relationships, conll_data, completed>>

Next ==
    \/ CheckInput
    \/ ReadInput
    \/ CallExtractTokens
    \/ CallExtractAnnos
    \/ CallMapSpans
    \/ CallMapRelationships
    \/ CallConvert
    \/ WriteNer
    \/ WriteRel
    \/ WriteConll

Spec == Init /\ [][Next]_vars

----------------------------------------------------------------------------
(* Properties *)

InKeys(d, id) == \E j \in 1..Len(d) : d[j].xmi_id = id

\* C1: every accepted record is in exactly one of ners and relations, a
\* relationship iff it carries both Dependent and Governor, an entity span
\* otherwise
C1_PartitionExhaustiveExclusive ==
    "extract_annos" \in completed =>
        \A i \in 1..Len(Annos(xmi_content)) :
            LET r == Annos(xmi_content)[i]
                both == HasKey(r, "Dependent") /\ HasKey(r, "Governor")
            IN  /\ InKeys(ners, r.xmi_id) # InKeys(relations, r.xmi_id)
                /\ InKeys(relations, r.xmi_id) <=> both
                /\ InKeys(ners, r.xmi_id) <=> ~both

\* a token element or custom element whose begin or end is not an integer
MalformedOffset(e) ==
    /\ IsToken(e) \/ LabelMatch(e)
    /\ \E i \in 1..Len(e.attrs) :
          /\ e.attrs[i].prefix = ""
          /\ e.attrs[i].name \in {"begin", "end"}
          /\ ~IsDigits(e.attrs[i].value)

HasMalformedOffset(content) ==
    \E i \in 1..Len(content.elems) : MalformedOffset(content.elems[i])

\* C2: a file with a token or custom span element whose begin or end is not
\* an integer never gets through extraction: the conversion ends in an error
C2_MalformedOffsetIsFatal ==
    HasMalformedOffset(xmi_content) => "extract_annos" \notin completed

\* the attribute's qualified name is one of xmi:id, begin, end, sofa
ReservedAttr(a) ==
    \/ a.prefix = "xmi" /\ a.name = "id"
    \/ a.prefix = "" /\ a.name \in {"begin", "end", "sofa"}

\* C3: the keys of an accepted line's record, other than xmi_id, begin, end
\* and label, are exactly the names of the line's attributes that are not
\* reserved; the identifier attribute gives no key
C3_ExtraKeysAreNonReservedAttributes ==
    "extract_annos" \in completed =>
        \A i \in 1..Len(xmi_content.elems) :
            LET e == xmi_content.elems[i]
            IN  Accepted(e) =>
                    \E j \in 1..Len(Annos(xmi_content)) :
                        LET r == Annos(xmi_content)[j]
                        IN  /\ r.xmi_id = e.attrs[FirstIdx(XmiIdHits(e))].value
                            /\ DOMAIN r \ {"xmi_id", "begin", "end", "label"}
                               = {e.attrs[k].name : k \in
                                    {k \in 1..Len(e.attrs) :
                                        /\ ~ReservedAttr(e.attrs[k])
                                        /\ Len(e.attrs[k].value) > 0}}

\* the half-open ranges [begin, end) share a character
Overlaps(span, tok) == Max(span.begin, tok.begin) < Min(span.end, tok.end)

\* C5: after map_tokens_to_spans, an entity span that no token overlaps has
\* token "UNKNOWN"
C5_NoOverlapGivesUnknown ==
    "map_spans" \in completed =>
        \A i \in 1..Len(ners) :
            (\A j \in 1..Len(tokens) : ~Overlaps(ners[i], tokens[j]))
                => ners[i].token = UNKNOWN

\* the Sofa element is missing, or is there without the text attribute
SofaMissingOrNoText(content) ==
    \/ FindSofa(content) = <<>>
    \/ ElemGet(FindSofa(content)[1], "sofaString") = <<>>

\* C6: with the Sofa missing or without text, and nothing else wrong with the
\* file, neither conversion raises, and both end with no token
C6_EmptyTextNeverFails ==
    (/\ inputExists
     /\ file.wellFormed
     /\ ~HasMalformedOffset(file)
     /\ SofaMissingOrNoText(file))
        => /\ pc # "raised"
           /\ "extract_tokens" \in completed => tokens = <<>>
           /\ "convert" \in completed => conll_data = <<>>

\* C7: every (token, start, end) of the forward scan has text[start:end] =
\* token and 0 <= start < end <= len(text), and each start is at or after
\* the end before it
C7_ForwardScanOffsets ==
    "convert" \in completed =>
        LET text == SofaString(xmi_content)[1]
        IN  \A i \in 1..Len(conll_data) :
                LET t == conll_data[i]
                IN  /\ 0 <= t.start /\ t.start < t.end /\ t.end <= Len(text)
                    /\ t.token = [k \in 1..(t.end - t.start) |-> text[t.start + k]]
                    /\ i > 1 => t.start >= conll_data[i - 1].end

\* the same token text occurs twice in the scanned document
C7_Witness ==
    /\ "convert" \in completed
    /\ \E i, j \in 1..Len(conll_data) :
          i < j /\ conll_data[i].token = conll_data[j].token

Inside(span, t) == span.begin <= t.start /\ t.end <= span.end

NoTokenInTwoSpans ==
    \A i \in 1..Len(conll_data) :
        Cardinality({k \in 1..Len(ners) : Inside(ners[k], conll_data[i])}) <= 1

\* C8: when no token is contained in more than one span, the first token
\* contained in a span is B-label, the later ones I-label, and a token
\* contained in no span is O
C8_BioLabels ==
    ("convert" \in completed /\ NoTokenInTwoSpans) =>
        \A i \in 1..Len(conll_data) :
            LET t == conll_data[i]
                S == {k \in 1..Len(ners) : Inside(ners[k], t)}
            IN  IF S = {} THEN t.label = OTag
                ELSE \A k \in S :
                        t.label =
                            IF \E j \in 1..(i - 1) : Inside(ners[k], conll_data[j])
                            THEN <<"I", ners[k].label>>
                            ELSE <<"B", ners[k].label>>

\* two spans, none sharing a token, one of them with a second token
C8_Witness ==
    /\ "convert" \in completed
    /\ NoTokenInTwoSpans
    /\ Len(ners) = 2
    /\ \E i \in 1..Len(conll_data) : conll_data[i].label[1] = "I"

LabelsAre(bs) ==
    /\ Len(conll_data) = 7
    /\ \A i \in 1..Len(conll_data) :
          conll_data[i].label = IF i \in bs THEN <<"B", "LOC">> ELSE <<"O">>

ParisTokens ==
    <<SubSeq(ParisText, 1, 5), SubSeq(ParisText, 7, 8), SubSeq(ParisText, 10, 12),
      SubSeq(ParisText, 14, 20), SubSeq(ParisText, 22, 23),
      SubSeq(ParisText, 25, 30), SubSeq(ParisText, 32, 32)>>

ParisConverted == file = ParisDoc /\ "convert" \in completed

\* C4 as stated: in the worked scenario "Paris" and "France" are B-LOC and
\* every other token is O
C4_ScenarioAsStated ==
    ParisConverted =>
        /\ [i \in 1..Len(conll_data) |-> conll_data[i].token] = ParisTokens
        /\ LabelsAre({1, 6})

\* C4 amended: in the worked scenario "Paris" and "." are B-LOC and every
\* other token, "France" among them, is O
C4_ScenarioAsComputed ==
    ParisConverted =>
        /\ [i \in 1..Len(conll_data) |-> conll_data[i].token] = ParisTokens
        /\ LabelsAre({1, 7})

C4_Witness == file = ParisDoc /\ entry = "conll" /\ pc = "done"

\* C9: an output file exists only when the input exists and every
\* extraction, mapping and conversion step has completed; a run whose input
\* is missing or that raised has written nothing
C9_NoOutputBeforeCompletion ==
    /\ DOMAIN out # {} =>
          /\ inputExists
          /\ pc \in {"write_rel", "done"}
          /\ {"extract_tokens", "extract_annos", "map_spans"} \subseteq completed
          /\ entry = "json" => "map_relationships" \in completed
          /\ entry = "conll" => "convert" \in completed
    /\ (~inputExists \/ pc = "raised") => DOMAIN out = {}

\* a run that raised after the input was read
C9_Witness == inputExists /\ pc = "raised" /\ DOMAIN out = {}

ResolvedTo(x, key) ==
    IF InKeys(ners, key)
    THEN \E k \in 1..Len(ners) : ners[k].xmi_id = key /\ x = ners[k].token
    ELSE x = UNKNOWN

\* C10: each endpoint is resolved on its own: the token text of the entity
\* span it names when that span exists, "UNKNOWN" otherwise
C10_EndpointsResolvedIndependently ==
    "map_relationships" \in completed =>
        /\ Len(relationships) = Len(relations)
        /\ \A i \in 1..Len(relationships) :
              /\ relationships[i].xmi_id = relations[i].xmi_id
              /\ relationships[i].label = relations[i].label
              /\ ResolvedTo(relationships[i].rel_dep, relations[i].Dependent)
              /\ ResolvedTo(relationships[i].rel_gov, relations[i].Governor)

\* a relationship whose dependent resolves and whose governor does not
C10_Witness ==
    /\ "map_relationships" \in completed
    /\ \E i \in 1..Len(relationships) :
          /\ InKeys(ners, relations[i].Dependent)
          /\ relationships[i].rel_dep # UNKNOWN
          /\ ~InKeys(ners, relations[i].Governor)
          /\ relationships[i].rel_gov = UNKNOWN

====
